---- MODULE Spec2Model ----
(***************************************************************************)
(* The greenhouse-agent dashboard (ui/src/js/App.js): the App component's  *)
(* state (switches, metrics), the fetch / then / catch chains that read    *)
(* and mutate switch state over HTTP, the click handlers of SwitchRow, and *)
(* the metrics text transform of the Sensors component.                    *)
(*                                                                         *)
(* Strings are sequences of one-character strings.                         *)
(***************************************************************************)
EXTENDS Integers, Sequences, FiniteSets, TLC

\* ------------------------------------------------------------------ bounds
\* Longest raw metrics text drawn in InitSensors.
MaxLen == 5
\* Most user clicks (mutating actions) in one behaviour.
MaxOps == 2
\* Number of switches the backend is configured with.
NumPins == 1

\* ------------------------------------------------------- text primitives
\* The characters raw metrics texts are drawn from: the two recognised
\* suffixes, the comment mark, the field separator, the line separator, a
\* digit and the decimal point.
Alphabet == {"f", "h", "#", " ", "\n", "7", "."}

Digits == {"0", "1", "2", "3", "4", "5", "6", "7", "8", "9"}

\* String.prototype.trim's white space that can occur inside one line.
White == {" ", "\t", "\r"}

DigitVal(c) ==
  CASE c = "0" -> 0 [] c = "1" -> 1 [] c = "2" -> 2 [] c = "3" -> 3
    [] c = "4" -> 4 [] c = "5" -> 5 [] c = "6" -> 6 [] c = "7" -> 7
    [] c = "8" -> 8 [] c = "9" -> 9

DigitChar(d) ==
  CASE d = 0 -> "0" [] d = 1 -> "1" [] d = 2 -> "2" [] d = 3 -> "3"
    [] d = 4 -> "4" [] d = 5 -> "5" [] d = 6 -> "6" [] d = 7 -> "7"
    [] d = 8 -> "8" [] d = 9 -> "9"

\* The texts of n characters.
TextsOfLen(n) == [1..n -> Alphabet]

\* s.split(sep) for a one-character separator: always at least one piece.
RECURSIVE SplitFrom(_, _, _, _)
SplitFrom(s, sep, i, cur) ==
  IF i > Len(s) THEN <<cur>>
  ELSE IF s[i] = sep THEN <<cur>> \o SplitFrom(s, sep, i + 1, <<>>)
  ELSE SplitFrom(s, sep, i + 1, Append(cur, s[i]))

Split(s, sep) == SplitFrom(s, sep, 1, <<>>)

RECURSIVE TrimLeft(_)
TrimLeft(s) ==
  IF s # <<>> /\ Head(s) \in White THEN TrimLeft(Tail(s)) ELSE s

RECURSIVE TrimRight(_)
TrimRight(s) ==
  IF s # <<>> /\ s[Len(s)] \in White
  THEN TrimRight(SubSeq(s, 1, Len(s) - 1)) ELSE s

\* line.trim()
Trim(s) == TrimRight(TrimLeft(s))

\* line.startsWith("#")
IsComment(line) == line # <<>> /\ line[1] = "#"

\* The value of parts[1] handed to Number.parseFloat: a missing field is
\* undefined, which parseFloat first converts to the string "undefined".
SecondField(parts) ==
  IF Len(parts) >= 2 THEN parts[2]
  ELSE <<"u", "n", "d", "e", "f", "i", "n", "e", "d">>

\* The longest prefix of s made of digits.
RECURSIVE DigitPrefix(_)
DigitPrefix(s) ==
  IF s # <<>> /\ Head(s) \in Digits
  THEN <<Head(s)>> \o DigitPrefix(Tail(s)) ELSE <<>>

RECURSIVE DigitsToNat(_)
DigitsToNat(ds) ==
  IF ds = <<>> THEN 0
  ELSE 10 * DigitsToNat(SubSeq(ds, 1, Len(ds) - 1)) + DigitVal(ds[Len(ds)])

RECURSIVE Pow10(_)
Pow10(k) == IF k = 0 THEN 1 ELSE 10 * Pow10(k - 1)

NaN == [nan |-> TRUE, num |-> 0, den |-> 1]

\* Number.parseFloat on an unsigned decimal literal without exponent: the
\* longest prefix "digits", "digits.", "digits.digits" or ".digits" is the
\* number (num / den), anything else is NaN.
ParseFloat(str) ==
  LET s    == TrimLeft(str)
      ip   == DigitPrefix(s)
      rest == SubSeq(s, Len(ip) + 1, Len(s))
      fp   == IF rest # <<>> /\ Head(rest) = "." THEN DigitPrefix(Tail(rest))
              ELSE <<>>
  IN  IF ip = <<>> /\ fp = <<>> THEN NaN
      ELSE [nan |-> FALSE,
            num |-> DigitsToNat(ip) * Pow10(Len(fp)) + DigitsToNat(fp),
            den |-> Pow10(Len(fp))]

RECURSIVE NatToDigits(_)
NatToDigits(n) ==
  IF n < 10 THEN <<DigitChar(n)>>
  ELSE Append(NatToDigits(n \div 10), DigitChar(n % 10))

\* ToFixed2Wrong: toFixed(0) in place of toFixed(2).
ToFixed2Wrong(x) ==
  IF x.nan THEN <<"N", "a", "N">>
  ELSE NatToDigits((2 * x.num + x.den) \div (2 * x.den))

\* Number.prototype.toFixed(2): NaN formats as "NaN"; a finite number below
\* 1e21 as its integer part, a point and two digits, rounded to nearest.
ToFixed2(x) ==
  IF x.nan THEN <<"N", "a", "N">>
  ELSE LET n == (200 * x.num + x.den) \div (2 * x.den)
       IN  NatToDigits(n \div 100)
             \o <<".", DigitChar((n % 100) \div 10), DigitChar(n % 10)>>

\* metric_lasts
metric_lasts == {"f", "h"}

\* name.substring(name.length - 1, name.length)
LastChar(name) == IF name = <<>> THEN <<>> ELSE <<name[Len(name)]>>

\* The last filter of Sensors: metric_lasts.includes(last).
KeepsRow(name) == \E c \in metric_lasts : LastChar(name) = <<c>>

\* The map step of Sensors.
ToRow(line) ==
  LET parts == Split(line, " ")
  IN  [name |-> parts[1], value |-> ToFixed2(ParseFloat(SecondField(parts)))]

RECURSIVE MapTrim(_)
MapTrim(ls) ==
  IF ls = <<>> THEN <<>> ELSE <<Trim(Head(ls))>> \o MapTrim(Tail(ls))

RECURSIVE DropComments(_)
DropComments(ls) ==
  IF ls = <<>> THEN <<>>
  ELSE IF IsComment(Head(ls)) THEN DropComments(Tail(ls))
  ELSE <<Head(ls)>> \o DropComments(Tail(ls))

RECURSIVE MapRows(_)
MapRows(ls) ==
  IF ls = <<>> THEN <<>> ELSE <<ToRow(Head(ls))>> \o MapRows(Tail(ls))

RECURSIVE KeepRows(_)
KeepRows(rows) ==
  IF rows = <<>> THEN <<>>
  ELSE IF KeepsRow(Head(rows).name) THEN <<Head(rows)>> \o KeepRows(Tail(rows))
  ELSE KeepRows(Tail(rows))

\* SensorsNoTrim: the comment filter applied to the untrimmed lines.
SensorsNoTrim(text) ==
  KeepRows(MapRows(MapTrim(DropComments(Split(text, "\n")))))

\* metrics_list of the Sensors component.
Sensors(text) ==
  KeepRows(MapRows(DropComments(MapTrim(Split(text, "\n")))))

\* ------------------------------------------------------------ the state
VARIABLES
  backend,       \* the backend's switch list, what GET /switches_state reports
  bver,          \* how many mutating requests the backend has applied
  life,          \* "rendered" (first render done), "mounted" (effects ran),
                 \* "crashed" (a render threw and React unmounted the tree)
  switches,      \* useState([]): the held switch list
  metrics,       \* useState(''): the held raw metrics text
  rendered,      \* the SwitchRow elements in the DOM
  metrics_list,  \* the Sensor rows in the DOM
  renders,       \* how many times App re-rendered after its first render
  ops,           \* the mutating requests, one per click, in click order
  gets,          \* the GET /switches_state requests, in issue order
  mgets,         \* the GET /metrics requests, in issue order
  last           \* payload and backend version of the refresh applied last

vars == <<backend, bver, life, switches, metrics, rendered, metrics_list,
          renders, ops, gets, mgets, last>>

\* HTTP statuses the backend answers with.
Statuses == {200, 500}

\* Bodies of GET /metrics in the protocol model.
MetricsBodies == {<<>>, <<"f", " ", "7">>}

\* switchValue
switchValue(pin_state) == pin_state >= 1

\* DisabledWrong: the toggle locked for every automatic switch.
DisabledWrong(s) == s.is_auto

\* The disabled attribute of the checkbox.
Disabled(s) == s.is_auto /\ ~s.override_auto

\* Whether overrideBtn is defined.
HasOverrideBtn(s) == s.is_auto

\* One SwitchRow element.
SwitchRow(s) ==
  [pin_num  |-> s.pin_num,
   checked  |-> switchValue(s.pin_state),
   disabled |-> Disabled(s),
   button   |-> HasOverrideBtn(s),
   lock     |-> s.is_auto /\ ~s.override_auto]

\* SwitchesGrid: switches.map(SwitchRow).
SwitchesGrid(list) == [i \in 1..Len(list) |-> SwitchRow(list[i])]

NewOp(kind, pin, value) ==
  [kind |-> kind, pin |-> pin, value |-> value, phase |-> "sent",
   status |-> 0, body |-> "", alerts |-> <<>>]

NewGet(cause) ==
  [cause |-> cause, phase |-> "sent", status |-> 0, body |-> "",
   payload |-> <<>>, ver |-> 0, alerts |-> <<>>]

NewMGet(cause) ==
  [cause |-> cause, phase |-> "sent", body |-> <<>>, alerts |-> <<>>]

\* noServerAlert
noServerAlert == [kind |-> "no server", body |-> ""]

\* The GET /switches_state requests issued on behalf of click i (0: mount).
GetsOf(i) == {g \in 1..Len(gets) : gets[g].cause = i}

MGetsOf(i) == {m \in 1..Len(mgets) : mgets[m].cause = i}

InitialBackend ==
  {b \in [1..NumPins -> [pin_num : 1..NumPins, pin_state : {0},
                         is_auto : BOOLEAN, override_auto : {FALSE}]] :
     \A p \in 1..NumPins : b[p].pin_num = p}

Init ==
  /\ backend \in InitialBackend
  /\ bver = 0
  /\ life = "rendered"
  /\ switches = <<>>
  /\ metrics = <<>>
  /\ rendered = <<>>
  /\ metrics_list = Sensors(<<>>)
  /\ renders = 0
  /\ ops = <<>>
  /\ gets = <<>>
  /\ mgets = <<>>
  /\ last = [payload |-> <<>>, ver |-> 0]

\* ------------------------------------------------------------- the client
\* MountSwitchesOnly: the second effect missing.
MountSwitchesOnly ==
  /\ gets' = Append(gets, NewGet(0))
  /\ mgets' = mgets

\* The two useEffect(..., []) callbacks: fetchSwitchesState, fetchMetrics.
MountEffects ==
  /\ gets' = Append(gets, NewGet(0))
  /\ mgets' = Append(mgets, NewMGet(0))

Mount ==
  /\ life = "rendered"
  /\ life' = "mounted"
  /\ MountEffects
  /\ UNCHANGED <<backend, bver, switches, metrics, rendered, metrics_list,
                 renders, ops, last>>

\* SwitchRow.setPinState then apiUpdatePinState up to its fetch: the change
\* event of checkbox i carries the negation of the checked value React last
\* wrote to the controlled input.
ClickToggle(i) ==
  /\ life = "mounted"
  /\ Len(ops) < MaxOps
  /\ i \in 1..Len(rendered)
  /\ ~rendered[i].disabled
  /\ LET sd == ~rendered[i].checked
         v  == IF sd THEN 1 ELSE 0
     IN  /\ switches' = [switches EXCEPT ![i].pin_state = v]
         /\ ops' = Append(ops, NewOp("output", switches[i].pin_num, v))
  /\ UNCHANGED <<backend, bver, life, metrics, rendered, metrics_list,
                 renders, gets, mgets, last>>

\* SwitchRow.setAutoOverride then apiUpdatePinOverride up to its fetch.
ClickOverride(i) ==
  /\ life = "mounted"
  /\ Len(ops) < MaxOps
  /\ i \in 1..Len(rendered)
  /\ rendered[i].button
  /\ LET o == ~switches[i].override_auto
     IN  /\ switches' = [switches EXCEPT ![i].override_auto = o]
         /\ ops' = Append(ops, NewOp("override", switches[i].pin_num,
                                     IF o THEN 1 ELSE 0))
  /\ UNCHANGED <<backend, bver, life, metrics, rendered, metrics_list,
                 renders, gets, mgets, last>>

\* The first then-callback of a mutating fetch: the response (status line and
\* headers) arrived and data.text() starts reading the body.
FetchResolved(i) ==
  /\ i \in 1..Len(ops)
  /\ ops[i].phase = "responded"
  /\ ops' = [ops EXCEPT ![i].phase = "reading"]
  /\ UNCHANGED <<backend, bver, life, switches, metrics, rendered,
                 metrics_list, renders, gets, mgets, last>>

\* The catch of a mutating fetch: the fetch promise rejected, the request or
\* its response being lost.
FetchRejected(i) ==
  /\ i \in 1..Len(ops)
  /\ ops[i].phase \in {"sent", "responded"}
  /\ ops' = [ops EXCEPT ![i].phase = "failed",
                        ![i].alerts = Append(@, noServerAlert)]
  /\ UNCHANGED <<backend, bver, life, switches, metrics, rendered,
                 metrics_list, renders, gets, mgets, last>>

\* RefreshOnlyOnSuccess: the re-fetch skipped after an error status.
RefreshOnlyOnSuccess(status) == status <= 299

\* Whether the text callback calls fetchSwitchesState: always.
RefreshAfter(status) == TRUE

\* The alert of the text callback.
FailureAlert(op) ==
  IF op.status > 299
  THEN <<[kind |-> IF op.kind = "output" THEN "pin update failed"
                   ELSE "pin auto override failed",
          body |-> op.body]>>
  ELSE <<>>

\* The callback of data.text(): alert on status > 299, then re-fetch.
TextResolved(i) ==
  /\ i \in 1..Len(ops)
  /\ ops[i].phase = "reading"
  /\ ops' = [ops EXCEPT ![i].phase = "done",
                        ![i].alerts = @ \o FailureAlert(ops[i])]
  /\ gets' = IF RefreshAfter(ops[i].status) THEN Append(gets, NewGet(i))
             ELSE gets
  /\ UNCHANGED <<backend, bver, life, switches, metrics, rendered,
                 metrics_list, renders, mgets, last>>

\* data.text() rejected: its promise is neither returned to the chain nor
\* given a handler, so no callback of the component runs.
TextRejected(i) ==
  /\ i \in 1..Len(ops)
  /\ ops[i].phase = "reading"
  /\ ops' = [ops EXCEPT ![i].phase = "aborted"]
  /\ UNCHANGED <<backend, bver, life, switches, metrics, rendered,
                 metrics_list, renders, gets, mgets, last>>

\* AppliedKeepFirst: the response dropped once a list is held.
AppliedKeepFirst(cur, data) == IF cur = <<>> THEN data ELSE cur

\* The state setSwitches(data.switches) leaves: the response's list.
Applied(cur, data) == data

\* fetchSwitchesState's callbacks on a body that parses as JSON.  With a
\* switches member the list is replaced and App re-renders; without one the
\* state becomes undefined, switches.map throws in SwitchesGrid and React
\* unmounts the tree.  After that, setSwitches has nothing to update.
GetResolved(g) ==
  /\ g \in 1..Len(gets)
  /\ gets[g].phase = "responded"
  /\ gets[g].body \in {"switches", "json"}
  /\ gets' = [gets EXCEPT ![g].phase = "applied", ![g].payload = <<>>,
                          ![g].ver = 0]
  /\ IF life = "crashed"
     THEN UNCHANGED <<life, switches, rendered, metrics_list, renders, last>>
     ELSE IF gets[g].body = "switches"
     THEN /\ switches' = Applied(switches, gets[g].payload)
          /\ rendered' = SwitchesGrid(switches')
          /\ renders' = renders + 1
          /\ last' = [payload |-> gets[g].payload, ver |-> gets[g].ver]
          /\ UNCHANGED <<life, metrics_list>>
     ELSE /\ life' = "crashed"
          /\ switches' = <<>>
          /\ rendered' = <<>>
          /\ metrics_list' = <<>>
          /\ UNCHANGED <<renders, last>>
  /\ UNCHANGED <<backend, bver, metrics, ops, mgets>>

\* fetchSwitchesState's catch: the fetch rejected (request or response lost)
\* or response.json() rejected (the body is not JSON).
GetRejected(g) ==
  /\ g \in 1..Len(gets)
  /\ \/ gets[g].phase = "sent"
     \/ gets[g].phase = "responded"
  /\ gets' = [gets EXCEPT ![g].phase = "failed", ![g].payload = <<>>,
                          ![g].ver = 0,
                          ![g].alerts = Append(@, noServerAlert)]
  /\ UNCHANGED <<backend, bver, life, switches, metrics, rendered,
                 metrics_list, renders, ops, mgets, last>>

\* fetchMetrics's callbacks: setMetrics(data).  A text equal to the held one
\* leaves the state as it is and App does not re-render.
MetricsResolved(m) ==
  /\ m \in 1..Len(mgets)
  /\ mgets[m].phase = "responded"
  /\ mgets' = [mgets EXCEPT ![m].phase = "applied"]
  /\ IF life = "crashed" \/ mgets[m].body = metrics
     THEN UNCHANGED <<metrics, rendered, metrics_list, renders>>
     ELSE /\ metrics' = mgets[m].body
          /\ rendered' = SwitchesGrid(switches)
          /\ metrics_list' = Sensors(metrics')
          /\ renders' = renders + 1
  /\ UNCHANGED <<backend, bver, life, switches, ops, gets, last>>

\* fetchMetrics's catch.
MetricsRejected(m) ==
  /\ m \in 1..Len(mgets)
  /\ mgets[m].phase \in {"sent", "responded"}
  /\ mgets' = [mgets EXCEPT ![m].phase = "failed",
                            ![m].alerts = Append(@, noServerAlert)]
  /\ UNCHANGED <<backend, bver, life, switches, metrics, rendered,
                 metrics_list, renders, ops, gets, last>>

\* ------------------------------------------------------------ the backend
\* GET /pin/output/{pin_num}/{0|1} and GET /pin/override_auto/{pin_num}/{0|1}
\* as the interface describes them.
Mutated(b, op) ==
  IF op.kind = "output"
  THEN [b EXCEPT ![op.pin].pin_state = op.value]
  ELSE [b EXCEPT ![op.pin].override_auto = (op.value = 1)]

\* The backend answers a mutating request: with 2xx it applies it.
ServeMutation(i) ==
  /\ i \in 1..Len(ops)
  /\ ops[i].phase = "sent"
  /\ \E st \in Statuses :
       /\ ops' = [ops EXCEPT ![i].phase = "responded", ![i].status = st,
                             ![i].body = IF st > 299 THEN "error" ELSE "ok"]
       /\ IF st > 299 THEN UNCHANGED <<backend, bver>>
          ELSE /\ backend' = Mutated(backend, ops[i])
               /\ bver' = bver + 1
  /\ UNCHANGED <<life, switches, metrics, rendered, metrics_list, renders,
                 gets, mgets, last>>

\* The backend answers GET /switches_state: 200 with {switches: [...]}, or an
\* error status whose body is that JSON, other JSON, or not JSON.
ServeSwitches(g) ==
  /\ g \in 1..Len(gets)
  /\ gets[g].phase = "sent"
  /\ \E st \in Statuses, body \in {"switches", "json", "text"} :
       /\ st <= 299 => body = "switches"
       /\ gets' = [gets EXCEPT ![g].phase = "responded", ![g].status = st,
                               ![g].body = body, ![g].payload = backend,
                               ![g].ver = bver]
  /\ UNCHANGED <<backend, bver, life, switches, metrics, rendered,
                 metrics_list, renders, ops, mgets, last>>

\* The backend answers GET /metrics with one of the given texts.
ServeMetricsFrom(m, bodies) ==
  /\ m \in 1..Len(mgets)
  /\ mgets[m].phase = "sent"
  /\ \E body \in bodies :
       mgets' = [mgets EXCEPT ![m].phase = "responded", ![m].body = body]
  /\ UNCHANGED <<backend, bver, life, switches, metrics, rendered,
                 metrics_list, renders, ops, gets, last>>

ServeMetrics(m) == ServeMetricsFrom(m, MetricsBodies)

Next ==
  \/ Mount
  \/ \E i \in 1..NumPins : ClickToggle(i)
  \/ \E i \in 1..NumPins : ClickOverride(i)
  \/ \E i \in 1..MaxOps : FetchResolved(i)
  \/ \E i \in 1..MaxOps : FetchRejected(i)
  \/ \E i \in 1..MaxOps : TextResolved(i)
  \/ \E i \in 1..MaxOps : TextRejected(i)
  \/ \E g \in 1..(MaxOps + 1) : GetResolved(g)
  \/ \E g \in 1..(MaxOps + 1) : GetRejected(g)
  \/ \E m \in 1..Len(mgets) : MetricsResolved(m)
  \/ \E m \in 1..Len(mgets) : MetricsRejected(m)
  \/ \E i \in 1..MaxOps : ServeMutation(i)
  \/ \E g \in 1..(MaxOps + 1) : ServeSwitches(g)
  \/ \E m \in 1..Len(mgets) : ServeMetrics(m)

Spec == Init /\ [][Next]_vars

\* ------------------------------------------- the metrics transform alone
\* The App mounted, its two requests sent; GET /metrics is answered with
\* any text up to MaxLen and the answer applied.
InitSensors ==
  /\ backend = [p \in 1..NumPins |->
                 [pin_num |-> p, pin_state |-> 0, is_auto |-> TRUE,
                  override_auto |-> FALSE]]
  /\ bver = 0
  /\ life = "mounted"
  /\ switches = <<>>
  /\ metrics = <<>>
  /\ rendered = <<>>
  /\ metrics_list = Sensors(<<>>)
  /\ renders = 0
  /\ ops = <<>>
  /\ gets = <<NewGet(0)>>
  /\ mgets = <<NewMGet(0)>>
  /\ last = [payload |-> <<>>, ver |-> 0]

ServeAnyMetrics(m) == \E n \in 0..MaxLen : ServeMetricsFrom(m, TextsOfLen(n))

NextSensors ==
  \/ \E m \in 1..Len(mgets) : ServeAnyMetrics(m)
  \/ \E m \in 1..Len(mgets) : MetricsResolved(m)

SpecSensors == InitSensors /\ [][NextSensors]_vars

\* ------------------------------------------ the metrics transform, stated
\* The claims' reading of the transform, by positions in the raw text.
Min(S) == CHOOSE x \in S : \A y \in S : x <= y

Max(S) == CHOOSE x \in S : \A y \in S : x >= y

\* The k-th smallest member of S.
Kth(S, k) == CHOOSE x \in S : Cardinality({y \in S : y < x}) = k - 1

\* The positions that bound the lines of a text: before it, each newline, and
\* after it.
LineBounds(t) == {0, Len(t) + 1} \cup {k \in 1..Len(t) : t[k] = "\n"}

NumLines(t) == Cardinality(LineBounds(t)) - 1

LineAt(t, j) == SubSeq(t, Kth(LineBounds(t), j) + 1, Kth(LineBounds(t), j + 1) - 1)

Trimmed(l) ==
  LET nw == {k \in 1..Len(l) : l[k] \notin White}
  IN  IF nw = {} THEN <<>> ELSE SubSeq(l, Min(nw), Max(nw))

\* The k-th space-separated field of a line, <<>> when there is none.
FieldAt(l, k) ==
  LET sp == {0, Len(l) + 1} \cup {j \in 1..Len(l) : l[j] = " "}
  IN  IF k >= Cardinality(sp) THEN <<>>
      ELSE SubSeq(l, Kth(sp, k) + 1, Kth(sp, k + 1) - 1)

EndsInFOrH(name) == name # <<>> /\ name[Len(name)] \in {"f", "h"}

Qualifies(l) ==
  /\ ~(Trimmed(l) # <<>> /\ Trimmed(l)[1] = "#")
  /\ EndsInFOrH(FieldAt(Trimmed(l), 1))

QualifyingLines(t) == {j \in 1..NumLines(t) : Qualifies(LineAt(t, j))}

\* The line of the raw text that row r of the result stands for.
LineOfRow(t, r) == Trimmed(LineAt(t, Kth(QualifyingLines(t), r)))

\* A string of digits, a point and exactly two digits.
TwoDecimals(v) ==
  /\ Len(v) >= 4
  /\ v[Len(v) - 2] = "."
  /\ \A k \in 1..Len(v) : k # Len(v) - 2 => v[k] \in Digits

\* Whether a field starts, after white space, with an unsigned decimal number.
StartsWithNumber(f) ==
  LET nw == {k \in 1..Len(f) : f[k] \notin White}
      s  == IF nw = {} THEN <<>> ELSE SubSeq(f, Min(nw), Len(f))
  IN  \/ s # <<>> /\ s[1] \in Digits
      \/ Len(s) >= 2 /\ s[1] = "." /\ s[2] \in Digits

\* C8: the rows rendered for the held metrics text are exactly, and in input
\* order, the lines that after trimming do not start with '#' and whose first
\* space-separated field ends in 'f' or 'h'; the empty text gives no row.
C8_RowsAreQualifyingLines ==
  /\ Len(metrics_list) = Cardinality(QualifyingLines(metrics))
  /\ \A r \in 1..Len(metrics_list) :
       /\ metrics_list[r].name = FieldAt(LineOfRow(metrics, r), 1)
       /\ EndsInFOrH(metrics_list[r].name)
  /\ metrics = <<>> => metrics_list = <<>>

\* A text with a comment line that ends in 'f' and a qualifying line after
\* it, applied and rendered as one row.
C8_Witness ==
  /\ mgets[1].phase = "applied"
  /\ metrics = <<"#", "f", "\n", "h", " ">>
  /\ metrics_list = <<[name |-> <<"h">>, value |-> <<"N", "a", "N">>]>>

\* C9 as stated: every row's value has exactly two digits after the point,
\* malformed lines included.
C9_AllValuesTwoDecimals ==
  \A r \in 1..Len(metrics_list) : TwoDecimals(metrics_list[r].value)

\* C9 amended: a row whose second field starts with a number has a value with
\* exactly two digits after the point; any other row has the value "NaN".
C9_NumericValuesTwoDecimals ==
  \A r \in 1..Len(metrics_list) :
    IF StartsWithNumber(FieldAt(LineOfRow(metrics, r), 2))
    THEN TwoDecimals(metrics_list[r].value)
    ELSE metrics_list[r].value = <<"N", "a", "N">>

\* A row formatted from "7.7" and, in another text, the rounding of a third
\* decimal: here the former, applied and rendered.
C9_Witness ==
  /\ mgets[1].phase = "applied"
  /\ \E r \in 1..Len(metrics_list) :
       /\ metrics_list[r].value = <<"7", ".", "7", "0">>
       /\ FieldAt(LineOfRow(metrics, r), 2) = <<"7", ".", "7">>

\* ------------------------------------------------ the protocol, stated
\* A refresh response is applied in this step.
RefreshApplied(g) ==
  /\ g \in 1..Len(gets)
  /\ gets[g].phase = "responded"
  /\ gets'[g].phase = "applied"

C2_FailedFetchKeepsList ==
  [][\A g \in 1..Len(gets) :
       (gets[g].phase \in {"sent", "responded"}
          /\ gets'[g].phase \in {"applied", "failed"})
       => IF gets'[g].phase = "failed" \/ gets[g].status > 299
          THEN switches' = switches /\ Len(gets'[g].alerts) = 1
          ELSE switches' = gets[g].payload /\ gets'[g].alerts = <<>>]_vars

\* C3 as stated: the held switch state changes only in a step that applies a
\* GET /switches_state response, and a row goes from Locked to Unlocked only
\* in such a step, after an override request for that switch succeeded.
C3_HeldChangesOnlyOnRefresh ==
  [][/\ switches' # switches => \E g \in 1..Len(gets) : RefreshApplied(g)
     /\ \A r \in 1..Len(rendered) :
          (r <= Len(rendered') /\ rendered[r].lock /\ ~rendered'[r].lock)
          => /\ \E g \in 1..Len(gets) : RefreshApplied(g)
             /\ \E i \in 1..Len(ops) :
                  /\ ops[i].kind = "override"
                  /\ ops[i].pin = rendered[r].pin_num
                  /\ ops[i].phase = "done"
                  /\ ops[i].status <= 299]_vars

\* C4 as stated: both fetches are issued on mount, and each completed
\* mutating action is followed by a GET /switches_state and a GET /metrics.
C4_BothRefetchedAfterMutation ==
  /\ life # "rendered" => GetsOf(0) # {} /\ MGetsOf(0) # {}
  /\ \A i \in 1..Len(ops) :
       ops[i].phase = "done" => GetsOf(i) # {} /\ MGetsOf(i) # {}

\* C4 amended: both fetches are issued exactly once on mount; each completed
\* mutating action is followed by one GET /switches_state and by no
\* GET /metrics.
C4_OnlySwitchesRefetched ==
  /\ life = "rendered" => gets = <<>> /\ mgets = <<>>
  /\ life # "rendered" =>
       Cardinality(GetsOf(0)) = 1 /\ Cardinality(MGetsOf(0)) = 1
  /\ \A i \in 1..Len(ops) :
       /\ ops[i].phase = "done" => Cardinality(GetsOf(i)) = 1
       /\ MGetsOf(i) = {}

\* A completed mutating action with its refresh, and the one mount-time
\* GET /metrics.
C4_Witness ==
  /\ \E i \in 1..Len(ops) : ops[i].phase = "done" /\ GetsOf(i) # {}
  /\ Len(mgets) = 1

C6_HeldIsLastPayload == switches = last.payload

\* C7 as stated: a mutating request that ended raised exactly the alert its
\* outcome calls for: one failure alert with the body for status > 299, none
\* for status <= 299, one no-server alert for a transport failure while
\* sending or while reading the body; one in flight raised none.
C7_EveryFailureAlertedOnce ==
  \A i \in 1..Len(ops) :
    /\ ops[i].phase = "done" =>
         ops[i].alerts =
           IF ops[i].status > 299
           THEN <<[kind |-> IF ops[i].kind = "output" THEN "pin update failed"
                            ELSE "pin auto override failed",
                   body |-> ops[i].body]>>
           ELSE <<>>
    /\ ops[i].phase \in {"failed", "aborted"} =>
         ops[i].alerts = <<noServerAlert>>
    /\ ops[i].phase \in {"sent", "responded", "reading"} =>
         ops[i].alerts = <<>>

\* No request is in flight.
Quiescent ==
  /\ life = "mounted"
  /\ \A i \in 1..Len(ops) : ops[i].phase \in {"done", "failed", "aborted"}
  /\ \A g \in 1..Len(gets) : gets[g].phase \in {"applied", "failed"}
  /\ \A m \in 1..Len(mgets) : mgets[m].phase \in {"applied", "failed"}

\* Every request received a successful response.
AllSucceeded ==
  /\ \A i \in 1..Len(ops) : ops[i].phase = "done" /\ ops[i].status <= 299
  /\ \A g \in 1..Len(gets) : gets[g].phase = "applied" /\ gets[g].status <= 299
  /\ \A m \in 1..Len(mgets) : mgets[m].phase = "applied"

\* C10 as stated: with every request answered successfully and none in
\* flight, the held list is the backend's current switch state.
C10_ConvergesAlways == Quiescent /\ AllSucceeded => switches = backend

\* C10 amended: the same, when the refresh applied last was served after
\* the backend had processed every mutating request.
C10_ConvergesWhenLastRefreshIsNewest ==
  Quiescent /\ AllSucceeded /\ last.ver = bver => switches = backend

\* Two overlapping mutate+refresh pairs, all answered, the newest refresh
\* applied last.
C10_Witness ==
  /\ Quiescent /\ AllSucceeded /\ last.ver = bver
  /\ Len(ops) = 2 /\ bver = 2
  /\ switches = backend

====
